---- MODULE Spec2Model ----
(***************************************************************************)
(* Retrieval core of the document analyzer (src/rag_pipeline.py):          *)
(* RAGPipeline.store_document, expand_query, hybrid_search, rerank_chunks  *)
(* and retrieve_context over the per-document ChromaDB collections.        *)
(*                                                                         *)
(* Strings are sequences of literal pieces, so an f-string is the          *)
(* concatenation of its pieces.  A document text is a sequence of          *)
(* paragraphs separated by blank lines; every paragraph is either          *)
(* whitespace only (Blank) or a block longer than half the chunk size and  *)
(* shorter than it, so the splitter (chunk_size 1000, overlap 200, first   *)
(* separator "\n\n") cuts exactly at the paragraph breaks.                 *)
(*                                                                         *)
(* The request handlers of src/app.py are coroutines that call the         *)
(* pipeline without awaiting inside it, so pipeline calls run one at a     *)
(* time: pc is the caller's position (ready to call, or holding a result). *)
(* The coroutines themselves (the startup hook and the handlers between    *)
(* their awaits) are the tasks of SpecTasks, which takes the pipeline      *)
(* calls apart into their steps and lets the event loop switch tasks only  *)
(* where a coroutine awaits.                                               *)
(*                                                                         *)
(* SpecChunk runs the text splitter on texts given character run by        *)
(* character run, SpecExpand runs expand_query, SpecRerank rerank_chunks,  *)
(* and SpecSmall and SpecLong run the calls of Spec on short texts and on  *)
(* a document of more chunks than one search returns.                      *)
(*                                                                         *)
(* SpecExtract runs PDFExtractor.extract (src/pdf_extractor.py) on files   *)
(* given by what each extraction library makes of them.  SpecQuery runs    *)
(* the upload and query handlers of src/app.py whole, one request at a     *)
(* time, over the documents and messages tables of src/database.py.        *)
(***************************************************************************)
EXTENDS Integers, Sequences, FiniteSets, TLC

VARIABLES
    collections,  \* chroma_client: collection name -> records, in insertion order
    stored,       \* history: doc_id -> chunks that store_document inserted for it
    pc,           \* "ready" | "done"
    call,         \* the call that ran last: its name and arguments
    ret,          \* what it returned
    raised,       \* whether it raised instead of returning
    locals,       \* the values of its local variables when it ended
    tasks,        \* coroutine -> its position and local values
    running,      \* the coroutine that holds the event loop, 0 when none does
    _rag_pipeline,  \* the module global: 0 is None, n is the n-th instance
    constructions,  \* history: how many times RAGPipeline() has run
    db_documents,   \* db: the documents table, row i having id i
    db_messages     \* db: the messages table, in insertion order

taskVars == <<tasks, running, _rag_pipeline, constructions>>

callVars == <<pc, call, ret, raised, locals>>

dbVars == <<db_documents, db_messages>>

vars == <<collections, stored, pc, call, ret, raised, locals,
          tasks, running, _rag_pipeline, constructions,
          db_documents, db_messages>>

---------------------------------------------------------------------------
(* Bounds of the model *)

\* hybrid_search is called with top_k in 0..MaxTopK (and with HybridTopK)
MaxTopK == 3
\* rerank_chunks is called directly with at most this many candidates
MaxCandidates == 3
\* RAGPipeline() runs at most this many times in one process
MaxConstructions == 3
\* expand_query is called directly with queries of at most this many pieces
MaxQueryLen == 4
\* chunk_document is called directly with texts of at most this many atoms
MaxAtoms == 4

(* Constants of the program *)

NumVariants == 6
PerVariantCap == 10
HybridTopK == 20
DocumentDepth == 5
SectionDepth == 3
FactDepth == 3

---------------------------------------------------------------------------
(* Inputs *)

DocIds == {1, 2}

Blank == "  "

EmptyDict == [k \in {} |-> ""]

\* (text, metadata) pairs handed to store_document; metadata None is the
\* empty dict, as `metadata or {}` makes it
StoreInputs ==
    { [text |-> <<>>, metadata |-> EmptyDict],
      [text |-> <<Blank>>, metadata |-> EmptyDict],
      [text |-> <<"risk factors", Blank, "outlook", "revenue grew">>,
       metadata |-> [filename |-> "b.pdf", doc_id |-> "2"]],
      [text |-> <<"revenue grew", "costs fell", "risk factors", "outlook",
                  "dividend", "audit opinion">>,
       metadata |-> [filename |-> "a.pdf"]] }

Queries == { <<"revenue">>, <<"risk">> }

Intents == {"document", "section", "fact", "summary"}

Variants == 0 .. (NumVariants - 1)

\* the query variants whose collection.query raises, in one call
FaultySearches ==
    { {}, {0}, {0, 1, 2}, {1, 2, 3, 4, 5}, Variants }

---------------------------------------------------------------------------
(* Helpers *)

Min(a, b) == IF a <= b THEN a ELSE b

\* the sequence s with every element evaluated
Seq_(s) == SubSeq(s, 1, Len(s))

\* the positions of keys in ascending order of key, equal keys in their
\* original order (Python's sorted / list.sort are stable)
SortOrder(keys) ==
    LET n == Len(keys)
        rank == Seq_([i \in 1..n |->
                   Cardinality({j \in 1..n :
                       \/ keys[j] < keys[i]
                       \/ keys[j] = keys[i] /\ j < i}) + 1])
    IN Seq_([p \in 1..n |-> CHOOSE i \in 1..n : rank[i] = p])

RECURSIVE Flatten(_)
Flatten(ss) ==
    IF ss = <<>> THEN <<>> ELSE Head(ss) \o Flatten(Tail(ss))

Str(doc_id) == <<"1", "2">>[doc_id]

---------------------------------------------------------------------------
(* Embedding model *)

\* The unit directions the encoder maps text to (scaled by 5)
Directions ==
    << <<5, 0>>, <<4, 3>>, <<3, 4>>, <<0, 5>>, <<-3, 4>>, <<-4, 3>>,
       <<-5, 0>>, <<-4, -3>>, <<-3, -4>>, <<0, -5>>, <<3, -4>>, <<4, -3>> >>

PieceWeight(piece) ==
    CASE piece = "revenue" -> 0
      [] piece = "risk" -> 4
      [] piece = "What is " -> 1
      [] piece = "?" -> 0
      [] piece = "Explain " -> 11
      [] piece = "Information about " -> 2
      [] piece = "Details regarding " -> 10
      [] piece = "Can you tell me about " -> 3
      [] piece = "revenue grew" -> 1
      [] piece = "costs fell" -> 2
      [] piece = "risk factors" -> 4
      [] piece = "outlook" -> 6
      [] piece = "dividend" -> 9
      [] piece = "audit opinion" -> 11
      [] OTHER -> 7

RECURSIVE TextWeight(_)
TextWeight(text) ==
    IF text = <<>> THEN 0 ELSE PieceWeight(Head(text)) + TextWeight(Tail(text))

\* embedding_model.encode of one text: deterministic, of unit norm
Encode(text) == Directions[(TextWeight(text) % Len(Directions)) + 1]

create_embeddings(texts) == Seq_([i \in 1..Len(texts) |-> Encode(texts[i])])

Dot(a, b) == a[1] * b[1] + a[2] * b[2]

Norm(a) == CHOOSE n \in 0..Dot(a, a) : n * n = Dot(a, a)

\* dot(q, c) / (norm(q) * norm(c)), in hundredths
CosineSimilarity(q, c) == (Dot(q, c) * 100) \div (Norm(q) * Norm(c))

\* the distance of a collection created without "hnsw:space": squared L2
Distance(a, b) ==
    (a[1] - b[1]) * (a[1] - b[1]) + (a[2] - b[2]) * (a[2] - b[2])

---------------------------------------------------------------------------
(* Chunking *)

chunk_document(text) ==
    LET kept == SelectSeq(text, LAMBDA p : p # Blank)
    IN Seq_([i \in 1..Len(kept) |-> <<kept[i]>>])

---------------------------------------------------------------------------
(* The vector store *)

\* mutant: the name leaves out the doc_id
CollectionNameShared(doc_id) == <<"doc_", "">>

CollectionName(doc_id) == <<"doc_", Str(doc_id)>>

ChunkId(i) == <<"chunk_", i>>

HasId(coll, id) == \E k \in 1..Len(coll) : coll[k].id = id

\* mutant: the added records replace the collection
CollectionAddReplacing(coll, ids, embeddings, documents, metadatas) ==
    Seq_([i \in 1..Len(ids) |->
            [id |-> ids[i], embedding |-> embeddings[i],
             document |-> documents[i], metadata |-> metadatas[i]]])

\* collection.add of the client the code constructs (PersistentClient):
\* a record whose id the collection already holds is left out (the
\* collection keeps the record it has), the others are appended
CollectionAdd(coll, ids, embeddings, documents, metadatas) ==
    LET new == Seq_([i \in 1..Len(ids) |->
                  [id |-> ids[i], embedding |-> embeddings[i],
                   document |-> documents[i], metadata |-> metadatas[i]]])
    IN coll \o SelectSeq(new, LAMBDA r : ~HasId(coll, r.id))

\* collection.query: the n_results nearest records, nearest first
CollectionQuery(coll, query_embedding, n_results) ==
    LET hits == Seq_([k \in 1..Len(coll) |->
                   [id |-> coll[k].id, document |-> coll[k].document,
                    metadata |-> coll[k].metadata,
                    distance |-> Distance(query_embedding, coll[k].embedding)]])
        order == SortOrder(Seq_([k \in 1..Len(hits) |-> hits[k].distance]))
        nearest == Seq_([p \in 1..Len(hits) |-> hits[order[p]]])
    IN SubSeq(nearest, 1, Min(n_results, Len(nearest)))

---------------------------------------------------------------------------
(* store_document *)

StoreIds(chunks) == Seq_([i \in 1..Len(chunks) |-> ChunkId(i - 1)])

StoreMetadatas(doc_id, chunks, metadata) ==
    Seq_([i \in 1..Len(chunks) |->
            metadata @@ [chunk_index |-> i - 1, doc_id |-> Str(doc_id)]])

\* chroma_client.create_collection: a name that is taken raises
create_collection(colls, collection_name) ==
    IF collection_name \in DOMAIN colls
    THEN [raised |-> TRUE, colls |-> colls]
    ELSE [raised |-> FALSE, colls |-> (collection_name :> <<>>) @@ colls]

\* try get_collection, except create_collection
GetOrCreateCollection(colls, collection_name) ==
    IF collection_name \in DOMAIN colls
    THEN [raised |-> FALSE, colls |-> colls]
    ELSE create_collection(colls, collection_name)

\* faults.embed: create_embeddings raises; faults.add: collection.add raises
store_document(colls, doc_id, text, metadata, faults) ==
    LET collection_name == CollectionName(doc_id)
        collection == GetOrCreateCollection(colls, collection_name)
        got == collection.colls
        chunks == chunk_document(text)
        embeddings == create_embeddings(chunks)
        ids == StoreIds(chunks)
        metadatas == StoreMetadatas(doc_id, chunks, metadata)
        added == CollectionAdd(got[collection_name], ids, embeddings,
                               chunks, metadatas)
    IN IF collection.raised
       THEN [raised |-> TRUE, ret |-> <<>>, colls |-> colls,
             ids |-> <<>>, chunks |-> <<>>]
       ELSE IF chunks = <<>>
       THEN [raised |-> FALSE, ret |-> collection_name, colls |-> got,
             ids |-> <<>>, chunks |-> chunks]
       ELSE IF faults.embed \/ faults.add
       THEN [raised |-> TRUE, ret |-> <<>>, colls |-> got,
             ids |-> <<>>, chunks |-> chunks]
       ELSE [raised |-> FALSE, ret |-> collection_name,
             colls |-> [got EXCEPT ![collection_name] = added],
             ids |-> ids, chunks |-> chunks]

---------------------------------------------------------------------------
(* expand_query *)

\* mutant: the last template is missing
expand_query_five(query) ==
    << query,
       <<"What is ">> \o query \o <<"?">>,
       <<"Explain ">> \o query,
       <<"Information about ">> \o query,
       <<"Details regarding ">> \o query >>

expand_query(query) ==
    LET expansions ==
          << query,
             <<"What is ">> \o query \o <<"?">>,
             <<"Explain ">> \o query,
             <<"Information about ">> \o query,
             <<"Details regarding ">> \o query,
             <<"Can you tell me about ">> \o query \o <<"?">> >>
    IN SubSeq(expansions, 1, Min(NumVariants, Len(expansions)))

---------------------------------------------------------------------------
(* hybrid_search *)

\* mutant: n_results=top_k
NResultsUncapped(top_k) == top_k

\* n_results=min(top_k, 10)
NResults(top_k) == Min(top_k, PerVariantCap)

\* the collection.query calls of the loop, in order: one for each embedding
SearchCalls(query_embeddings, top_k) ==
    Seq_([k \in 1..Len(query_embeddings) |->
            [query_variation |-> k - 1, n_results |-> NResults(top_k)]])

\* the results one variation contributes to all_results; i is the
\* 0-based index that enumerate gives the variation
VariationResults(coll, query_embedding, i, top_k) ==
    LET results == CollectionQuery(coll, query_embedding, NResults(top_k))
    IN Seq_([j \in 1..Len(results) |->
          [id |-> results[j].id, text |-> results[j].document,
           metadata |-> results[j].metadata,
           distance |-> results[j].distance, query_variation |-> i]])

\* mutant: a search that raises ends the loop
RECURSIVE SearchVariationsAbort(_, _, _, _)
SearchVariationsAbort(coll, query_embeddings, top_k, faulty) ==
    LET n == Len(query_embeddings)
    IN IF n = 0
       THEN <<>>
       ELSE LET front == SearchVariationsAbort(
                            coll, SubSeq(query_embeddings, 1, n - 1),
                            top_k, faulty)
            IN IF \E i \in 0..(n - 1) : i \in faulty
               THEN front
               ELSE front \o VariationResults(coll, query_embeddings[n],
                                              n - 1, top_k)

\* the loop over query_embeddings: a variation whose search raises is
\* skipped (collection.query raises on a backend fault, and on n_results
\* below 1)
SearchVariations(coll, query_embeddings, top_k, faulty) ==
    Flatten(Seq_([k \in 1..Len(query_embeddings) |->
               IF (k - 1) \in faulty \/ NResults(top_k) < 1
               THEN <<>>
               ELSE VariationResults(coll, query_embeddings[k], k - 1, top_k)]))

\* mutant: the merged results are not sorted before the duplicates go
SortByDistanceUnsorted(all_results) == all_results

SortByDistance(all_results) ==
    LET order == SortOrder(Seq_([k \in 1..Len(all_results) |->
                                    all_results[k].distance]))
    IN Seq_([p \in 1..Len(all_results) |-> all_results[order[p]]])

\* mutant: the loop does not stop at top_k
RECURSIVE RemoveDuplicatesNoBreak(_, _, _, _)
RemoveDuplicatesNoBreak(sorted, i, unique_results, top_k) ==
    IF i > Len(sorted)
    THEN unique_results
    ELSE IF \E k \in 1..Len(unique_results) :
                unique_results[k].id = sorted[i].id
    THEN RemoveDuplicatesNoBreak(sorted, i + 1, unique_results, top_k)
    ELSE RemoveDuplicatesNoBreak(sorted, i + 1,
                                 Append(unique_results, sorted[i]), top_k)

\* the loop over the sorted results from position i on
RECURSIVE RemoveDuplicates(_, _, _, _)
RemoveDuplicates(sorted, i, unique_results, top_k) ==
    IF i > Len(sorted)
    THEN unique_results
    ELSE IF \E k \in 1..Len(unique_results) :
                unique_results[k].id = sorted[i].id
    THEN RemoveDuplicates(sorted, i + 1, unique_results, top_k)
    ELSE LET appended == Append(unique_results, sorted[i])
         IN IF Len(appended) >= top_k
            THEN appended
            ELSE RemoveDuplicates(sorted, i + 1, appended, top_k)

\* mutant: get_or_create_collection in place of get_collection
FindOrCreateCollection(colls, collection_name) ==
    IF collection_name \in DOMAIN colls
    THEN [found |-> TRUE, records |-> colls[collection_name]]
    ELSE [found |-> TRUE, records |-> <<>>]

\* chroma_client.get_collection inside the try of hybrid_search: found is
\* FALSE when it raises, which it does when no collection has the name
FindCollection(colls, collection_name) ==
    IF collection_name \in DOMAIN colls
    THEN [found |-> TRUE, records |-> colls[collection_name]]
    ELSE [found |-> FALSE, records |-> <<>>]

\* faults.embed: create_embeddings raises (outside any try);
\* faults.search: the variations whose collection.query raises
hybrid_search(colls, doc_id, query, top_k, faults) ==
    LET collection_name == CollectionName(doc_id)
        collection == FindCollection(colls, collection_name)
        query_variations == expand_query(query)
        query_embeddings == create_embeddings(query_variations)
        all_results == SearchVariations(collection.records, query_embeddings,
                                        top_k, faults.search)
        unique_results ==
            RemoveDuplicates(SortByDistance(all_results), 1, <<>>, top_k)
    IN IF ~collection.found
       THEN [raised |-> FALSE, ret |-> <<>>, top_k |-> top_k,
             all_results |-> <<>>, searches |-> <<>>]
       ELSE IF faults.embed
       THEN [raised |-> TRUE, ret |-> <<>>, top_k |-> top_k,
             all_results |-> <<>>, searches |-> <<>>]
       ELSE [raised |-> FALSE, ret |-> unique_results, top_k |-> top_k,
             all_results |-> all_results,
             searches |-> SearchCalls(query_embeddings, top_k)]

---------------------------------------------------------------------------
(* rerank_chunks *)

\* mutant: the sort without reverse=True
SortBySimilarityAscending(similarities) ==
    LET order == SortOrder(Seq_([k \in 1..Len(similarities) |->
                                    similarities[k][2]]))
    IN Seq_([p \in 1..Len(similarities) |-> similarities[order[p]]])

\* similarities after the sort: the 1-based positions of chunks, most
\* similar first, equal similarities in their original order
SortBySimilarity(similarities) ==
    LET order == SortOrder(Seq_([k \in 1..Len(similarities) |->
                                    0 - similarities[k][2]]))
    IN Seq_([p \in 1..Len(similarities) |-> similarities[order[p]]])

\* fault: embedding_model.encode raises
rerank_chunks(query, chunks, top_k, fault) ==
    LET query_embedding == Encode(query)
        chunk_embeddings ==
            Seq_([i \in 1..Len(chunks) |-> Encode(chunks[i].text)])
        scored == Seq_([i \in 1..Len(chunks) |->
                     [similarity |->
                        CosineSimilarity(query_embedding, chunk_embeddings[i])]
                     @@ chunks[i]])
        similarities ==
            SortBySimilarity(
                Seq_([i \in 1..Len(chunks) |-> <<i, scored[i].similarity>>]))
        kept == SubSeq(similarities, 1, Min(top_k, Len(similarities)))
    IN IF chunks = <<>>
       THEN [raised |-> FALSE, ret |-> <<>>]
       ELSE IF fault
       THEN [raised |-> TRUE, ret |-> <<>>]
       ELSE [raised |-> FALSE,
             ret |-> Seq_([k \in 1..Len(kept) |-> scored[kept[k][1]]])]

---------------------------------------------------------------------------
(* retrieve_context *)

\* mutant: the else branch takes the depth of "document"
RerankDepthDocumentElse(intent) ==
    IF intent = "section" THEN SectionDepth ELSE DocumentDepth

RerankDepth(intent) ==
    IF intent = "document" THEN DocumentDepth
    ELSE IF intent = "section" THEN SectionDepth
    ELSE FactDepth

retrieve_context(colls, doc_id, query, intent, faults) ==
    LET searched == hybrid_search(colls, doc_id, query, HybridTopK, faults)
        chunks == searched.ret
        reranked == rerank_chunks(query, chunks, RerankDepth(intent),
                                  faults.rerank)
    IN IF searched.raised
       THEN [raised |-> TRUE, ret |-> <<>>, chunks |-> <<>>,
             top_k |-> searched.top_k, all_results |-> <<>>]
       ELSE IF chunks = <<>>
       THEN [raised |-> FALSE, ret |-> <<>>, chunks |-> <<>>,
             top_k |-> searched.top_k, all_results |-> searched.all_results]
       ELSE [raised |-> reranked.raised, ret |-> reranked.ret,
             chunks |-> chunks, top_k |-> searched.top_k,
             all_results |-> searched.all_results]

---------------------------------------------------------------------------
(* get_collection_stats *)

\* mutant: the collection is created when it is missing
get_collection_stats_creating(colls, doc_id) ==
    LET collection_name == CollectionName(doc_id)
        collection == GetOrCreateCollection(colls, collection_name)
    IN [ret |-> [collection_name |-> collection_name,
                 chunk_count |-> Len(collection.colls[collection_name]),
                 exists |-> TRUE],
        colls |-> collection.colls]

\* the dict it returns, and the store as it leaves it
get_collection_stats(colls, doc_id) ==
    LET collection_name == CollectionName(doc_id)
        collection == FindCollection(colls, collection_name)
    IN IF collection.found
       THEN [ret |-> [collection_name |-> collection_name,
                      chunk_count |-> Len(collection.records),
                      exists |-> TRUE],
             colls |-> colls]
       ELSE [ret |-> [collection_name |-> collection_name,
                      chunk_count |-> 0,
                      exists |-> FALSE,
                      error |-> "does not exist"],
             colls |-> colls]

---------------------------------------------------------------------------
(* The state machine *)

NoFaults == [embed |-> FALSE, add |-> FALSE, search |-> {}, rerank |-> FALSE]

StoreFaults ==
    { NoFaults, [NoFaults EXCEPT !.embed = TRUE],
      [NoFaults EXCEPT !.add = TRUE] }

SearchFaults ==
    { [NoFaults EXCEPT !.embed = TRUE] }
    \cup { [NoFaults EXCEPT !.search = s] : s \in FaultySearches }

RetrieveFaults ==
    SearchFaults \cup { [NoFaults EXCEPT !.rerank = TRUE] }

TopKs == (0 .. MaxTopK) \cup {HybridTopK}

CandidateTexts ==
    { <<"revenue grew">>, <<"risk factors">>, <<"outlook">>, <<"dividend">> }

\* the candidate lists rerank_chunks is called with: position j holds the
\* chunk of id ChunkId(j - 1)
CandidateLists ==
    UNION { { Seq_([j \in 1..n |-> [id |-> ChunkId(j - 1), text |-> f[j]]]) :
                f \in [1..n -> CandidateTexts] } : n \in 0..MaxCandidates }

NoCall == [name |-> "none"]

\* the chunks of a collection, without their embeddings
ChunksOf(coll) ==
    Seq_([k \in 1..Len(coll) |->
            [id |-> coll[k].id, text |-> coll[k].document,
             metadata |-> coll[k].metadata]])

\* the coroutines: the startup hook and the request handlers in flight
StartupTask == 0

Handlers == {1, 2}

\* the texts the handlers in flight store
TaskInputs == { input \in StoreInputs : input.text # <<>> }

\* a coroutine at position p that holds no request
TaskAt(p) ==
    [pc |-> p, doc_id |-> 0, text |-> <<>>, metadata |-> EmptyDict,
     rag |-> 0, created |-> FALSE, raised |-> FALSE, error |-> "",
     base |-> 0]

\* the server is up: startup_event has run, RAGPipeline() has built the one
\* instance, and no request is in flight
Init ==
    /\ collections = [n \in {} |-> <<>>]
    /\ stored = [d \in DocIds |-> <<>>]
    /\ pc = "ready"
    /\ call = NoCall
    /\ ret = <<>>
    /\ raised = FALSE
    /\ locals = <<>>
    /\ tasks = [t \in {StartupTask} \cup Handlers |->
                  IF t = StartupTask THEN [TaskAt("up") EXCEPT !.rag = 1]
                  ELSE TaskAt("idle")]
    /\ running = 0
    /\ _rag_pipeline = 1
    /\ constructions = 1
    /\ db_documents = <<>>
    /\ db_messages = <<>>

\* a store_document call with one of the given (text, metadata) pairs
StoreFrom(inputs) ==
    /\ pc = "ready"
    /\ \E doc_id \in DocIds, input \in inputs, faults \in StoreFaults :
         LET out == store_document(collections, doc_id, input.text,
                                   input.metadata, faults)
             name == CollectionName(doc_id)
             before == IF name \in DOMAIN collections
                       THEN Len(collections[name]) ELSE 0
             after == out.colls[name]
         IN /\ collections' = out.colls
            /\ stored' = [stored EXCEPT ![doc_id] =
                            @ \o ChunksOf(SubSeq(after, before + 1, Len(after)))]
            /\ call' = [name |-> "store_document", doc_id |-> doc_id,
                        text |-> input.text, metadata |-> input.metadata,
                        faults |-> faults]
            /\ ret' = out.ret
            /\ raised' = out.raised
            /\ locals' = [ids |-> out.ids, chunks |-> out.chunks]
    /\ pc' = "done"
    /\ UNCHANGED <<taskVars, dbVars>>

StoreDocument == StoreFrom(StoreInputs)

HybridSearch ==
    /\ pc = "ready"
    /\ \E doc_id \in DocIds, query \in Queries, top_k \in TopKs,
          faults \in SearchFaults :
         LET out == hybrid_search(collections, doc_id, query, top_k, faults)
         IN /\ call' = [name |-> "hybrid_search", doc_id |-> doc_id,
                        query |-> query, top_k |-> top_k, faults |-> faults]
            /\ ret' = out.ret
            /\ raised' = out.raised
            /\ locals' = [all_results |-> out.all_results,
                          chunks |-> out.ret, top_k |-> out.top_k,
                          searches |-> out.searches]
    /\ pc' = "done"
    /\ UNCHANGED <<collections, stored>>
    /\ UNCHANGED <<taskVars, dbVars>>

RetrieveContext ==
    /\ pc = "ready"
    /\ \E doc_id \in DocIds, query \in Queries, intent \in Intents,
          faults \in RetrieveFaults :
         LET out == retrieve_context(collections, doc_id, query, intent, faults)
         IN /\ call' = [name |-> "retrieve_context", doc_id |-> doc_id,
                        query |-> query, intent |-> intent, faults |-> faults]
            /\ ret' = out.ret
            /\ raised' = out.raised
            /\ locals' = [all_results |-> out.all_results,
                          chunks |-> out.chunks, top_k |-> out.top_k]
    /\ pc' = "done"
    /\ UNCHANGED <<collections, stored>>
    /\ UNCHANGED <<taskVars, dbVars>>

RerankChunks ==
    /\ pc = "ready"
    /\ \E query \in Queries, chunks \in CandidateLists, top_k \in 0..MaxTopK,
          fault \in BOOLEAN :
         LET out == rerank_chunks(query, chunks, top_k, fault)
         IN /\ call' = [name |-> "rerank_chunks", query |-> query,
                        chunks |-> chunks, top_k |-> top_k, fault |-> fault]
            /\ ret' = out.ret
            /\ raised' = out.raised
            /\ locals' = <<>>
    /\ pc' = "done"
    /\ UNCHANGED <<collections, stored>>
    /\ UNCHANGED <<taskVars, dbVars>>

GetCollectionStats ==
    /\ pc = "ready"
    /\ \E doc_id \in DocIds :
         LET out == get_collection_stats(collections, doc_id)
         IN /\ collections' = out.colls
            /\ call' = [name |-> "get_collection_stats", doc_id |-> doc_id]
            /\ ret' = out.ret
    /\ raised' = FALSE
    /\ locals' = <<>>
    /\ pc' = "done"
    /\ UNCHANGED stored
    /\ UNCHANGED <<taskVars, dbVars>>

\* the caller takes the result and is ready for its next call
Return ==
    /\ pc = "done"
    /\ pc' = "ready"
    /\ call' = NoCall
    /\ ret' = <<>>
    /\ raised' = FALSE
    /\ locals' = <<>>
    /\ UNCHANGED <<collections, stored>>
    /\ UNCHANGED <<taskVars, dbVars>>

Next ==
    \/ StoreDocument
    \/ HybridSearch
    \/ RetrieveContext
    \/ GetCollectionStats
    \/ Return

Spec == Init /\ [][Next]_vars

\* rerank_chunks alone, on candidate lists of the caller's choosing
NextRerank ==
    \/ RerankChunks
    \/ Return

SpecRerank == Init /\ [][NextRerank]_vars

\* texts shorter than the chunk size: empty, whitespace only, or one block
SmallInputs ==
    { [text |-> <<>>, metadata |-> EmptyDict],
      [text |-> <<Blank>>, metadata |-> EmptyDict],
      [text |-> <<"outlook">>, metadata |-> [filename |-> "a.pdf"]],
      [text |-> <<"dividend">>, metadata |-> EmptyDict] }

StoreSmall == StoreFrom(SmallInputs)

\* store_document on small texts
NextSmall ==
    \/ StoreSmall
    \/ Return

SpecSmall == Init /\ [][NextSmall]_vars

\* a document of more chunks than one search may return
LongInputs ==
    { [text |-> <<"risk factors", Blank, "outlook", "revenue grew">>,
       metadata |-> EmptyDict],
      [text |-> <<"revenue grew", "costs fell", "risk factors", "outlook",
                  "dividend", "audit opinion", "revenue grew", "costs fell",
                  "risk factors", "outlook", "dividend", "audit opinion">>,
       metadata |-> [filename |-> "a.pdf"]] }

StoreLong == StoreFrom(LongInputs)

\* searches over long documents
NextLong ==
    \/ StoreLong
    \/ HybridSearch
    \/ Return

SpecLong == Init /\ [][NextLong]_vars

\* the queries expand_query is called with directly: any pieces, the empty
\* query included
QueryPieces == {"revenue", " ", "?"}

ExpandQueries ==
    UNION { { Seq_(f) : f \in [1..n -> QueryPieces] } : n \in 0..MaxQueryLen }

ExpandQuery ==
    /\ pc = "ready"
    /\ \E query \in ExpandQueries :
         /\ call' = [name |-> "expand_query", query |-> query]
         /\ ret' = expand_query(query)
    /\ raised' = FALSE
    /\ locals' = <<>>
    /\ pc' = "done"
    /\ UNCHANGED <<collections, stored>>
    /\ UNCHANGED <<taskVars, dbVars>>

\* expand_query alone, on queries of the caller's choosing
NextExpand ==
    \/ ExpandQuery
    \/ Return

SpecExpand == Init /\ [][NextExpand]_vars

---------------------------------------------------------------------------
(* The text splitter, character by character *)

(* RecursiveCharacterTextSplitter as RAGPipeline.__init__ configures it,      *)
(* on texts given as sequences of atoms: [k |-> "w", n |-> n] is a run of n   *)
(* characters that are neither whitespace nor a full stop, and " ", "\n"      *)
(* and "." (n = 1) are single characters.  A separator is the sequence of     *)
(* the kinds of its characters.  Separators are kept, at the start of the     *)
(* piece that follows them, and chunks are stripped of whitespace (the        *)
(* defaults keep_separator and strip_whitespace of the splitter).             *)

ChunkSize == 1000

ChunkOverlap == 200

Separators == << <<"\n", "\n">>, <<"\n">>, <<".", " ">>, <<" ">>, <<>> >>

Max(a, b) == IF a > b THEN a ELSE b

\* len(s)
RECURSIVE StrLen(_)
StrLen(s) == IF s = <<>> THEN 0 ELSE Head(s).n + StrLen(Tail(s))

IsWhitespace(atom) == atom.k \in {" ", "\n"}

RECURSIVE LStrip(_)
LStrip(s) ==
    IF s # <<>> /\ IsWhitespace(Head(s)) THEN LStrip(Tail(s)) ELSE s

RECURSIVE RStrip(_)
RStrip(s) ==
    IF s # <<>> /\ IsWhitespace(s[Len(s)])
    THEN RStrip(SubSeq(s, 1, Len(s) - 1)) ELSE s

\* s.strip()
Strip(s) == LStrip(RStrip(s))

\* s[from - 1 : to], the characters from..to of s
RECURSIVE Slice(_, _, _)
Slice(s, from, to) ==
    IF s = <<>> \/ to < 1 THEN <<>>
    ELSE LET n == Head(s).n
         IN IF from > n THEN Slice(Tail(s), from - n, to - n)
            ELSE << [k |-> Head(s).k, n |-> Min(to, n) - from + 1] >>
                 \o Slice(Tail(s), 1, to - n)

\* the separator sep stands in s at atom i
MatchesAt(s, i, sep) ==
    /\ i + Len(sep) - 1 <= Len(s)
    /\ \A j \in 1..Len(sep) : s[i + j - 1].k = sep[j]

\* re.search(separator, text)
Found(s, sep) == \E i \in 1..Len(s) : MatchesAt(s, i, sep)

\* re.split with the separator captured, each separator joined to the
\* piece after it
RECURSIVE ReSplit(_, _, _, _, _)
ReSplit(s, sep, i, piece, pieces) ==
    IF i > Len(s) THEN Append(pieces, piece)
    ELSE IF MatchesAt(s, i, sep)
    THEN ReSplit(s, sep, i + Len(sep), SubSeq(s, i, i + Len(sep) - 1),
                 Append(pieces, piece))
    ELSE ReSplit(s, sep, i + 1, Append(piece, s[i]), pieces)

\* _split_text_with_regex for a separator other than "": the empty pieces
\* are dropped
split_text_with_regex(s, sep) ==
    SelectSeq(ReSplit(s, sep, 1, <<>>, <<>>), LAMBDA piece : piece # <<>>)

\* _join_docs with separator "": the stripped text, "" standing for None
join_docs(docs) == Strip(Flatten(docs))

\* docs.append(doc) `if doc is not None`
AppendDoc(docs, doc) == IF doc = <<>> THEN docs ELSE Append(docs, doc)

\* mutant: the pieces are merged whatever their length
OverflowsNever(total, len) == FALSE

\* _merge_splits: `total + _len + separator_len > self._chunk_size`, the
\* separator being ""
Overflows(total, len) == total + len > ChunkSize

\* _merge_splits: the while loop that drops pieces from the front of
\* current_doc
RECURSIVE PopFront(_, _, _)
PopFront(current_doc, total, len) ==
    IF total > ChunkOverlap \/ (Overflows(total, len) /\ total > 0)
    THEN PopFront(Tail(current_doc), total - StrLen(Head(current_doc)), len)
    ELSE [current_doc |-> current_doc, total |-> total]

\* _merge_splits: the for loop from split i on, and the last doc
RECURSIVE MergeLoop(_, _, _, _, _)
MergeLoop(splits, i, current_doc, total, docs) ==
    IF i > Len(splits) THEN AppendDoc(docs, join_docs(current_doc))
    ELSE LET d == splits[i]
             len == StrLen(d)
             full == Overflows(total, len) /\ current_doc # <<>>
             emitted == IF full THEN AppendDoc(docs, join_docs(current_doc))
                        ELSE docs
             kept == IF full THEN PopFront(current_doc, total, len)
                     ELSE [current_doc |-> current_doc, total |-> total]
         IN MergeLoop(splits, i + 1, Append(kept.current_doc, d),
                      kept.total + len, emitted)

merge_splits(splits) == MergeLoop(splits, 1, <<>>, 0, <<>>)

\* _merge_splits on list(s), the characters of s one by one: the for loop
\* emits a doc when the character after start + ChunkSize - 1 arrives, drops
\* characters from the front until ChunkOverlap are left, and goes on; so
\* the docs are the windows of ChunkSize characters that start every
\* ChunkSize - ChunkOverlap characters, stripped
RECURSIVE CharWindows(_, _)
CharWindows(s, start) ==
    LET stop == Min(StrLen(s), start + ChunkSize - 1)
        doc == Strip(Slice(s, start, stop))
        rest == IF stop < StrLen(s)
                THEN CharWindows(s, start + ChunkSize - ChunkOverlap)
                ELSE <<>>
    IN IF s = <<>> THEN <<>>
       ELSE IF doc = <<>> THEN rest ELSE <<doc>> \o rest

\* _split_text(text, separators)
RECURSIVE split_text(_, _)
RECURSIVE SplitLoop(_, _, _, _, _)

\* _split_text: the loop over the splits from split i on; a split of
\* chunk_size or more flushes the good splits and is split again with the
\* separators that are left
SplitLoop(splits, i, good_splits, final_chunks, new_separators) ==
    LET merged == IF good_splits = <<>> THEN <<>>
                  ELSE merge_splits(good_splits)
    IN IF i > Len(splits) THEN final_chunks \o merged
       ELSE IF StrLen(splits[i]) < ChunkSize
       THEN SplitLoop(splits, i + 1, Append(good_splits, splits[i]),
                      final_chunks, new_separators)
       ELSE LET other_info == IF new_separators = <<>> THEN << splits[i] >>
                              ELSE split_text(splits[i], new_separators)
            IN SplitLoop(splits, i + 1, <<>>,
                         final_chunks \o merged \o other_info, new_separators)

\* the first separator that is "" or occurs in the text; the last one when
\* there is none
split_text(text, separators) ==
    LET hits == { i \in 1..Len(separators) :
                    separators[i] = <<>> \/ Found(text, separators[i]) }
        at == IF hits = {} THEN Len(separators)
              ELSE CHOOSE i \in hits : \A j \in hits : i <= j
        separator == separators[at]
        new_separators == IF hits = {} \/ separator = <<>> THEN <<>>
                          ELSE SubSeq(separators, at + 1, Len(separators))
    IN IF separator = <<>>
       THEN CharWindows(text, 1)
       ELSE SplitLoop(split_text_with_regex(text, separator), 1, <<>>, <<>>,
                      new_separators)

\* the texts chunk_document is called with directly: up to MaxAtoms atoms,
\* with runs that fit a chunk together (400 + 400), that do not (400 + 700,
\* 700 + 700) and a run longer than a chunk
Atoms ==
    { [k |-> "w", n |-> 400], [k |-> "w", n |-> 700], [k |-> "w", n |-> 1300],
      [k |-> " ", n |-> 1], [k |-> "\n", n |-> 1], [k |-> ".", n |-> 1] }

AtomTexts ==
    UNION { { Seq_(f) : f \in [1..n -> Atoms] } : n \in 0..MaxAtoms }

\* chunk_document: self.text_splitter.split_text(text)
ChunkDocument ==
    /\ pc = "ready"
    /\ \E text \in AtomTexts :
         /\ call' = [name |-> "chunk_document", text |-> text]
         /\ ret' = split_text(text, Separators)
    /\ raised' = FALSE
    /\ locals' = <<>>
    /\ pc' = "done"
    /\ UNCHANGED <<collections, stored>>
    /\ UNCHANGED <<taskVars, dbVars>>

\* chunk_document alone, on texts of the caller's choosing
NextChunk ==
    \/ ChunkDocument
    \/ Return

SpecChunk == Init /\ [][NextChunk]_vars

---------------------------------------------------------------------------
(* The coroutines on the event loop *)

\* the process after the modules are imported: _rag_pipeline = None, empty
\* store, startup_event not yet run
InitProcess ==
    /\ collections = [n \in {} |-> <<>>]
    /\ stored = [d \in DocIds |-> <<>>]
    /\ pc = "ready"
    /\ call = NoCall
    /\ ret = <<>>
    /\ raised = FALSE
    /\ locals = <<>>
    /\ tasks = [t \in {StartupTask} \cup Handlers |->
                  IF t = StartupTask THEN TaskAt("startup")
                  ELSE TaskAt("idle")]
    /\ running = 0
    /\ _rag_pipeline = 0
    /\ constructions = 0
    /\ db_documents = <<>>
    /\ db_messages = <<>>

\* mutant: the loop may switch coroutines after every step
AwaitPointAnywhere(p) == TRUE

\* the positions at which a coroutine is off the event loop: not started,
\* suspended in an await, or finished.  Everywhere else it runs on.
AwaitPoint(p) == p \in {"startup", "up", "idle", "verify_token", "file_read", "done"}

\* task t may take a step: it holds the loop, or nobody does
Scheduled(t) == running \in {0, t}

\* task t moves on to the state rec and keeps the loop unless it now awaits
Step(t, rec) ==
    /\ tasks' = [tasks EXCEPT ![t] = rec]
    /\ running' = IF AwaitPoint(rec.pc) THEN 0 ELSE t

\* where get_rag_pipeline returns to
AfterRag(t) == IF t = StartupTask THEN "up" ELSE "get_collection"

\* startup_event: init_database(), then get_rag_pipeline()
StartupEvent ==
    /\ tasks[StartupTask].pc = "startup"
    /\ Scheduled(StartupTask)
    /\ Step(StartupTask, [tasks[StartupTask] EXCEPT !.pc = "rag_check"])
    /\ UNCHANGED <<collections, stored, callVars, dbVars,
                   _rag_pipeline, constructions>>

\* mutant: the global is not looked at
IsNoneAlways(global) == TRUE

\* `_rag_pipeline is None`
IsNone(global) == global = 0

\* get_rag_pipeline: `if _rag_pipeline is None`, else return the global
RagCheck ==
    \E t \in DOMAIN tasks :
      /\ tasks[t].pc = "rag_check"
      /\ Scheduled(t)
      /\ IF IsNone(_rag_pipeline)
         THEN Step(t, [tasks[t] EXCEPT !.pc = "rag_construct"])
         ELSE Step(t, [tasks[t] EXCEPT !.pc = AfterRag(t),
                                       !.rag = _rag_pipeline])
      /\ UNCHANGED <<collections, stored, callVars, dbVars,
                     _rag_pipeline, constructions>>

\* get_rag_pipeline: `_rag_pipeline = RAGPipeline()` and return it
RagConstruct ==
    \E t \in DOMAIN tasks :
      /\ tasks[t].pc = "rag_construct"
      /\ Scheduled(t)
      /\ constructions < MaxConstructions
      /\ constructions' = constructions + 1
      /\ _rag_pipeline' = constructions + 1
      /\ Step(t, [tasks[t] EXCEPT !.pc = AfterRag(t),
                                  !.rag = constructions + 1])
      /\ UNCHANGED <<collections, stored, callVars, dbVars>>

\* the number of records in the collection of doc_id, -1 when it has none
CountOrAbsent(colls, doc_id) ==
    IF CollectionName(doc_id) \in DOMAIN colls
    THEN Len(colls[CollectionName(doc_id)]) ELSE 0 - 1

\* a request arrives and its handler starts: it awaits verify_token; base is
\* the state of its document's collection at that moment
Accept ==
    \E t \in Handlers, doc_id \in DocIds, input \in TaskInputs :
      /\ tasks[StartupTask].pc = "up"
      /\ tasks[t].pc = "idle"
      /\ Scheduled(t)
      /\ Step(t, [TaskAt("verify_token") EXCEPT
                    !.doc_id = doc_id, !.text = input.text,
                    !.metadata = input.metadata,
                    !.base = CountOrAbsent(collections, doc_id)])
      /\ UNCHANGED <<collections, stored, callVars, dbVars,
                     _rag_pipeline, constructions>>

\* verify_token has answered; the handler runs on to `await file.read()`
VerifyToken ==
    \E t \in Handlers :
      /\ tasks[t].pc = "verify_token"
      /\ Scheduled(t)
      /\ Step(t, [tasks[t] EXCEPT !.pc = "file_read"])
      /\ UNCHANGED <<collections, stored, callVars, dbVars,
                     _rag_pipeline, constructions>>

\* the file is read; the handler runs on to get_rag_pipeline()
FileRead ==
    \E t \in Handlers :
      /\ tasks[t].pc = "file_read"
      /\ Scheduled(t)
      /\ Step(t, [tasks[t] EXCEPT !.pc = "rag_check"])
      /\ UNCHANGED <<collections, stored, callVars, dbVars,
                     _rag_pipeline, constructions>>

\* store_document: try get_collection
GetCollection ==
    \E t \in Handlers :
      /\ tasks[t].pc = "get_collection"
      /\ Scheduled(t)
      /\ IF CollectionName(tasks[t].doc_id) \in DOMAIN collections
         THEN Step(t, [tasks[t] EXCEPT !.pc = "add"])
         ELSE Step(t, [tasks[t] EXCEPT !.pc = "create_collection"])
      /\ UNCHANGED <<collections, stored, callVars, dbVars,
                     _rag_pipeline, constructions>>

\* store_document: except, create_collection; its exception leaves the call
CreateCollection ==
    \E t \in Handlers :
      /\ tasks[t].pc = "create_collection"
      /\ Scheduled(t)
      /\ LET out == create_collection(collections,
                                      CollectionName(tasks[t].doc_id))
         IN /\ collections' = out.colls
            /\ IF out.raised
               THEN Step(t, [tasks[t] EXCEPT !.pc = "done", !.raised = TRUE,
                                             !.error = "already exists"])
               ELSE Step(t, [tasks[t] EXCEPT !.pc = "add", !.created = TRUE])
      /\ UNCHANGED <<stored, callVars, dbVars, _rag_pipeline, constructions>>

\* store_document from chunk_document to its return (the collection is
\* there, so the operator's get_collection finds it)
AddChunks ==
    \E t \in Handlers :
      /\ tasks[t].pc = "add"
      /\ Scheduled(t)
      /\ LET name == CollectionName(tasks[t].doc_id)
             out == store_document(collections, tasks[t].doc_id,
                                   tasks[t].text, tasks[t].metadata, NoFaults)
             before == IF name \in DOMAIN collections
                       THEN Len(collections[name]) ELSE 0
             after == out.colls[name]
         IN /\ collections' = out.colls
            /\ stored' = [stored EXCEPT ![tasks[t].doc_id] =
                            @ \o ChunksOf(SubSeq(after, before + 1, Len(after)))]
            /\ Step(t, [tasks[t] EXCEPT !.pc = "done", !.raised = out.raised])
      /\ UNCHANGED <<callVars, dbVars, _rag_pipeline, constructions>>

\* the response is sent and the handler is gone
Finish ==
    \E t \in Handlers :
      /\ tasks[t].pc = "done"
      /\ Scheduled(t)
      /\ Step(t, TaskAt("idle"))
      /\ UNCHANGED <<collections, stored, callVars, dbVars,
                     _rag_pipeline, constructions>>

NextTasks ==
    \/ StartupEvent
    \/ RagCheck
    \/ RagConstruct
    \/ Accept
    \/ VerifyToken
    \/ FileRead
    \/ GetCollection
    \/ CreateCollection
    \/ AddChunks
    \/ Finish

SpecTasks == InitProcess /\ [][NextTasks]_vars

---------------------------------------------------------------------------
(* Properties *)

Ids(results) == { results[k].id : k \in 1..Len(results) }

\* the call that just ended ran the hybrid stage and the stage returned
HybridReturned ==
    /\ pc = "done"
    /\ call.name \in {"hybrid_search", "retrieve_context"}
    /\ \/ CollectionName(call.doc_id) \notin DOMAIN collections
       \/ ~call.faults.embed

\* the smallest distance at which the candidates hold the chunk id
BestDistance(candidates, id) ==
    CHOOSE d \in { candidates[k].distance :
                     k \in { j \in 1..Len(candidates) : candidates[j].id = id } } :
        \A k \in 1..Len(candidates) :
            candidates[k].id = id => d <= candidates[k].distance

\* the chunk without the fields a search adds to it
AsChunk(r) == [id |-> r.id, text |-> r.text, metadata |-> r.metadata]

StoredFor(doc_id, r) ==
    \E j \in 1..Len(stored[doc_id]) : stored[doc_id][j] = AsChunk(r)

\* C1: every result that hybrid_search or retrieve_context returns for a
\* doc_id is a chunk that a store_document call for that doc_id inserted;
\* a chunk stored only under another doc_id is never returned.
C1_Isolation ==
    (pc = "done" /\ call.name \in {"hybrid_search", "retrieve_context"})
        => /\ \A k \in 1..Len(ret) : StoredFor(call.doc_id, ret[k])
           /\ \A k \in 1..Len(locals.chunks) :
                  StoredFor(call.doc_id, locals.chunks[k])

\* C1 witness: a retrieval for one document returns results while the
\* other document holds a chunk that was never stored for the first
C1_Witness ==
    /\ pc = "done"
    /\ call.name = "retrieve_context"
    /\ ret # <<>>
    /\ \E other \in DocIds \ {call.doc_id} :
         \E j \in 1..Len(stored[other]) :
            \A i \in 1..Len(stored[call.doc_id]) :
               stored[call.doc_id][i] # stored[other][j]

\* the collection of doc_id as a first store_document(doc_id, text,
\* metadata) leaves it
FirstStore(doc_id, text, metadata) ==
    store_document([n \in {} |-> <<>>], doc_id, text, metadata,
                   NoFaults).colls[CollectionName(doc_id)]

\* C2: re-ingestion appends: after store_document(d, t1, m) and then
\* store_document(d, t2, m), with n1 >= 1 and n2 >= 1 chunks, the index of d
\* holds n1 + n2 chunks, those of the first call and those of the second.
C2_ReingestionAppends ==
    [][ ( /\ pc = "ready"
          /\ call'.name = "store_document"
          /\ ~raised'
          /\ Len(locals'.chunks) >= 1
          /\ CollectionName(call'.doc_id) \in DOMAIN collections
          /\ \E first \in StoreInputs :
               /\ first.metadata = call'.metadata
               /\ Len(chunk_document(first.text)) >= 1
               /\ collections[CollectionName(call'.doc_id)] =
                     FirstStore(call'.doc_id, first.text, first.metadata) )
        => LET name == CollectionName(call'.doc_id)
               n1 == Len(collections[name])
               n2 == Len(locals'.chunks)
           IN /\ Len(collections'[name]) = n1 + n2
              /\ SubSeq(collections'[name], 1, n1) = collections[name]
              /\ \A i \in 1..n2 :
                    collections'[name][n1 + i].document = locals'.chunks[i]
      ]_vars

\* C3: every chunk store_document inserts gets an id that differs from the
\* id of every other chunk of the same index, those of earlier calls
\* included; so no two chunks of one index share a chunk_id.
C3_ChunkIdsUnique ==
    [][ /\ ( /\ pc = "ready"
             /\ call'.name = "store_document"
             /\ CollectionName(call'.doc_id) \in DOMAIN collections )
          => /\ \A i, j \in 1..Len(locals'.ids) :
                   locals'.ids[i] = locals'.ids[j] => i = j
             /\ \A i \in 1..Len(locals'.ids) :
                   ~HasId(collections[CollectionName(call'.doc_id)],
                          locals'.ids[i])
        /\ \A n \in DOMAIN collections' :
              \A i, j \in 1..Len(collections'[n]) :
                 collections'[n][i].id = collections'[n][j].id => i = j
      ]_vars

\* the result of the hybrid stage of the call that just ended
HybridResult == locals.chunks

\* C4: the list hybrid_search returns holds no chunk_id twice, and the
\* distance kept for a returned chunk is the minimum distance observed for
\* that chunk across the query variants that retrieved it.
C4_DedupInvariant ==
    HybridReturned =>
        /\ \A i, j \in 1..Len(HybridResult) :
              HybridResult[i].id = HybridResult[j].id => i = j
        /\ \A i \in 1..Len(HybridResult) :
              /\ \E k \in 1..Len(locals.all_results) :
                    locals.all_results[k] = HybridResult[i]
              /\ \A k \in 1..Len(locals.all_results) :
                    locals.all_results[k].id = HybridResult[i].id
                        => HybridResult[i].distance
                              <= locals.all_results[k].distance

\* C4 witness: a returned chunk was retrieved by several variants, at
\* different distances
C4_Witness ==
    /\ HybridReturned
    /\ call.name = "hybrid_search"
    /\ \E i \in 1..Len(ret) :
         \E k, l \in 1..Len(locals.all_results) :
            /\ locals.all_results[k].id = ret[i].id
            /\ locals.all_results[l].id = ret[i].id
            /\ locals.all_results[k].query_variation
                  # locals.all_results[l].query_variation
            /\ locals.all_results[k].distance < locals.all_results[l].distance

\* C5: for top_k >= 1, hybrid_search returns at most top_k results, in
\* ascending order of distance, and no chunk that some variant retrieved
\* but the result leaves out has a strictly smaller best distance than a
\* returned chunk.
C5_HybridTruncation ==
    (HybridReturned /\ locals.top_k >= 1) =>
        /\ Len(HybridResult) <= locals.top_k
        /\ \A i, j \in 1..Len(HybridResult) :
              i < j => HybridResult[i].distance <= HybridResult[j].distance
        /\ \A k \in 1..Len(locals.all_results) :
              locals.all_results[k].id \notin Ids(HybridResult)
                 => \A i \in 1..Len(HybridResult) :
                       ~( BestDistance(locals.all_results,
                                       locals.all_results[k].id)
                             < HybridResult[i].distance )

\* C5 witness: the result is cut to top_k and leaves out a chunk that a
\* variant retrieved
C5_Witness ==
    /\ HybridReturned
    /\ call.name = "hybrid_search"
    /\ call.top_k >= 1
    /\ Len(ret) = call.top_k
    /\ \E k \in 1..Len(locals.all_results) :
          locals.all_results[k].id \notin Ids(ret)
    /\ \E i, j \in 1..Len(ret) : ret[i].distance < ret[j].distance

\* the similarity of a chunk to the original query, from its text
SimilarityTo(query, chunk) == CosineSimilarity(Encode(query), Encode(chunk.text))

\* C6: for any candidate list and top_k >= 0, rerank_chunks returns
\* min(top_k, number of candidates) of the candidates, each at most once,
\* in non-increasing order of cosine similarity to the original query, and
\* no omitted candidate is strictly more similar than a returned one; an
\* empty candidate list yields an empty list without error.
C6_RerankOrdering ==
    (pc = "done" /\ call.name = "rerank_chunks") =>
        /\ call.chunks = <<>> => (ret = <<>> /\ ~raised)
        /\ ~raised =>
             /\ Len(ret) = Min(call.top_k, Len(call.chunks))
             /\ \A i \in 1..Len(ret) :
                   \E k \in 1..Len(call.chunks) :
                      /\ call.chunks[k].id = ret[i].id
                      /\ call.chunks[k].text = ret[i].text
             /\ \A i, j \in 1..Len(ret) : ret[i].id = ret[j].id => i = j
             /\ \A i, j \in 1..Len(ret) :
                   i < j => SimilarityTo(call.query, ret[i])
                               >= SimilarityTo(call.query, ret[j])
             /\ \A k \in 1..Len(call.chunks) :
                   call.chunks[k].id \notin Ids(ret)
                      => \A i \in 1..Len(ret) :
                            SimilarityTo(call.query, call.chunks[k])
                               <= SimilarityTo(call.query, ret[i])

\* C6 witness: a rerank that reorders its candidates and omits one
C6_Witness ==
    /\ pc = "done"
    /\ call.name = "rerank_chunks"
    /\ ~raised
    /\ Len(ret) = 2
    /\ Len(call.chunks) = 3
    /\ ret[1].id = call.chunks[3].id
    /\ SimilarityTo(call.query, ret[1]) > SimilarityTo(call.query, ret[2])

\* what retrieve_context gives for the intent "fact" on the index state,
\* query and faults of the call that just ended
AsFact ==
    retrieve_context(collections, call.doc_id, call.query, "fact", call.faults)

\* C7: retrieve_context runs the hybrid stage with top_k = 20 and returns at
\* most 5 results for the intent "document" and at most 3 for "section",
\* "fact" or any other string; an unrecognized intent gives what "fact"
\* gives on the same index state and query, and raises no error of its own.
C7_IntentDepth ==
    (pc = "done" /\ call.name = "retrieve_context") =>
        /\ locals.top_k = 20
        /\ call.intent = "document" => Len(ret) <= 5
        /\ call.intent # "document" => Len(ret) <= 3
        /\ call.intent \notin {"document", "section", "fact"} =>
              /\ ret = AsFact.ret
              /\ raised = AsFact.raised
              /\ call.faults = NoFaults => ~raised

\* C7 witness: an unrecognized intent on an index of more than five chunks
\* returns three results
C7_Witness ==
    /\ pc = "done"
    /\ call.name = "retrieve_context"
    /\ call.intent = "summary"
    /\ Len(locals.chunks) > 5
    /\ Len(ret) = 3

\* C8: retrieve_context for a doc_id on which store_document was never
\* called returns an empty sequence and raises no error, whatever the query
\* and the intent.
C8_EmptyIndex ==
    ( /\ pc = "done"
      /\ call.name = "retrieve_context"
      /\ CollectionName(call.doc_id) \notin DOMAIN collections )
        => (ret = <<>> /\ ~raised)

\* C8 witness: a retrieval for a document never stored, while the
\* embedding backend is failing and the other document holds chunks
C8_Witness ==
    /\ pc = "done"
    /\ call.name = "retrieve_context"
    /\ CollectionName(call.doc_id) \notin DOMAIN collections
    /\ call.faults.embed
    /\ \E d \in DocIds : stored[d] # <<>>

\* the results the search of variation i gives hybrid_search on the index
\* state of the call that just ended
SearchOf(i) ==
    CollectionQuery(collections[CollectionName(call.doc_id)],
                    Encode(expand_query(call.query)[i + 1]),
                    Min(call.top_k, 10))

\* C9: if in hybrid_search the search fails for some query variants and
\* succeeds for at least one, the failed variants are skipped, the call does
\* not raise, and the result is the deduplicated, truncated merge of the
\* results of the variants that succeeded.
C9_PartialFailure ==
    ( /\ pc = "done"
      /\ call.name = "hybrid_search"
      /\ CollectionName(call.doc_id) \in DOMAIN collections
      /\ call.top_k >= 1
      /\ ~call.faults.embed
      /\ call.faults.search # {}
      /\ call.faults.search # Variants )
        => LET ok == Variants \ call.faults.search
           IN /\ ~raised
              /\ Len(ret) <= call.top_k
              /\ \A i, j \in 1..Len(ret) : ret[i].id = ret[j].id => i = j
              /\ \A i, j \in 1..Len(ret) :
                    i < j => ret[i].distance <= ret[j].distance
              /\ \A i \in 1..Len(ret) :
                    /\ ret[i].query_variation \in ok
                    /\ \E k \in 1..Len(SearchOf(ret[i].query_variation)) :
                          LET hit == SearchOf(ret[i].query_variation)[k]
                          IN /\ hit.id = ret[i].id
                             /\ hit.document = ret[i].text
                             /\ hit.metadata = ret[i].metadata
                             /\ hit.distance = ret[i].distance
              /\ \A v \in ok :
                    \A k \in 1..Len(SearchOf(v)) :
                       LET hit == SearchOf(v)[k]
                       IN \/ \E i \in 1..Len(ret) :
                                /\ ret[i].id = hit.id
                                /\ ret[i].distance <= hit.distance
                          \/ /\ Len(ret) = call.top_k
                             /\ \A i \in 1..Len(ret) :
                                   ret[i].distance <= hit.distance

\* C9 witness: the search of the original query fails, and the result
\* holds what the other variants found
C9_Witness ==
    /\ pc = "done"
    /\ call.name = "hybrid_search"
    /\ ~call.faults.embed
    /\ 0 \in call.faults.search
    /\ call.faults.search # Variants
    /\ Len(ret) >= 2

\* C10: retrieve_context never propagates an exception and never returns
\* null; when every variant fails or the embedding or index backend fails at
\* any step, it returns a well-formed empty list.
C10_NeverRaises ==
    (pc = "done" /\ call.name = "retrieve_context") =>
        /\ ~raised
        /\ ( \/ call.faults.embed
             \/ call.faults.rerank
             \/ call.faults.search = Variants ) => ret = <<>>

Appended(doc_id) ==
    LET name == CollectionName(doc_id)
        before == IF name \in DOMAIN collections
                  THEN Len(collections[name]) ELSE 0
        after == IF name \in DOMAIN collections'
                 THEN collections'[name] ELSE <<>>
    IN SubSeq(after, before + 1, Len(after))

\* C12: a store_document call stores all the chunks it produced or none of
\* them, and when it returns normally it has stored every one of them: a
\* call that leaves a chunk out raises.
C12_AllOrNothing ==
    [][ call'.name = "store_document"
        => LET new == Appended(call'.doc_id)
               chunks == locals'.chunks
               index == collections'[CollectionName(call'.doc_id)]
           IN /\ Len(new) \in {0, Len(chunks)}
              /\ raised' => new = <<>>
              /\ ~raised'
                 => \A k \in 1..Len(chunks) :
                      \E j \in 1..Len(index) : index[j].document = chunks[k]
      ]_vars

BothStored(t, u) ==
    /\ t # u
    /\ tasks[t].pc = "done" /\ tasks[u].pc = "done"
    /\ tasks[t].doc_id = tasks[u].doc_id
    /\ tasks[t].base = tasks[u].base
    /\ ~tasks[t].raised /\ ~tasks[u].raised

\* the index of the document of t as it was when t was accepted
BaseOf(t) ==
    LET name == CollectionName(tasks[t].doc_id)
    IN IF tasks[t].base < 0 THEN [n \in {} |-> <<>>]
       ELSE (name :> SubSeq(collections[name], 1, tasks[t].base))

\* the index after the call of t and then the call of u, run one after the
\* other from the base
OneAfterTheOther(t, u) ==
    LET d == tasks[t].doc_id
        first == store_document(BaseOf(t), d, tasks[t].text,
                                tasks[t].metadata, NoFaults)
        second == store_document(first.colls, d, tasks[u].text,
                                 tasks[u].metadata, NoFaults)
    IN second.colls[CollectionName(d)]

\* the final index is the one that some serial order of the two calls gives
C14_SerialOrder ==
    \A t \in Handlers, u \in Handlers :
      BothStored(t, u)
      => collections[CollectionName(tasks[t].doc_id)]
           \in {OneAfterTheOther(t, u), OneAfterTheOther(u, t)}

\* C14: when two store_document calls on one doc_id are in flight together,
\* the final index is the one that running them one after the other in some
\* order gives, every chunk of either call is in it, and no two of its
\* chunks have the same chunk id.
C14_Serialized ==
    \A t \in Handlers, u \in Handlers :
      BothStored(t, u)
      => LET index == collections[CollectionName(tasks[t].doc_id)]
             chunks == chunk_document(tasks[t].text)
         IN /\ index \in {OneAfterTheOther(t, u), OneAfterTheOther(u, t)}
            /\ \A k \in 1..Len(chunks) :
                  \E j \in 1..Len(index) : index[j].document = chunks[k]
            /\ \A i \in 1..Len(index), j \in 1..Len(index) :
                  index[i].id = index[j].id => i = j

\* C15: in one process RAGPipeline() runs at most once, and every
\* get_rag_pipeline() call, from the startup hook or from a handler, returns
\* the one instance that the global holds.
C15_SingleInitialization ==
    /\ constructions <= 1
    /\ \A t \in DOMAIN tasks :
          tasks[t].rag # 0 => tasks[t].rag = _rag_pipeline
    /\ \A t \in DOMAIN tasks, u \in DOMAIN tasks :
          tasks[t].rag # 0 /\ tasks[u].rag # 0 => tasks[t].rag = tasks[u].rag

\* the startup hook and two handlers in flight have each called
\* get_rag_pipeline()
C15_Witness ==
    /\ constructions = 1
    /\ \A t \in DOMAIN tasks : tasks[t].rag # 0
    /\ \E t \in Handlers : tasks[t].pc = "done"
    /\ \E t \in Handlers : tasks[t].pc = "get_collection"

\* string s is the string t with the string q inserted at some place
InsertedIn(s, q, t) ==
    \E p \in 0..Len(t) :
      s = SubSeq(t, 1, p) \o q \o SubSeq(t, p + 1, Len(t))

\* C16: expand_query returns exactly 6 strings; the first is the query
\* itself and each of the other five is a fixed, non-empty template (the
\* same for every query: what expand_query makes of the empty query) with
\* the query inserted verbatim; the five templates differ from one another.
C16_QueryExpansion ==
    pc = "done" /\ call.name = "expand_query"
    => LET templates == expand_query(<<>>)
       IN /\ Len(ret) = 6
          /\ Len(templates) = 6
          /\ ret[1] = call.query
          /\ \A i \in 2..6 :
                /\ templates[i] # <<>>
                /\ InsertedIn(ret[i], call.query, templates[i])
          /\ \A i \in 2..6, j \in 2..6 :
                templates[i] = templates[j] => i = j

\* a query of several pieces has been expanded to variants that differ
C16_Witness ==
    /\ pc = "done"
    /\ call.name = "expand_query"
    /\ Len(call.query) = MaxQueryLen
    /\ Len(ret) = 6
    /\ \A i \in 1..6, j \in 1..6 : ret[i] = ret[j] => i = j

\* a token: a string without whitespace, which no separator but "" divides
IsToken(s) == \A i \in 1..Len(s) : ~IsWhitespace(s[i])

\* C17: every chunk that chunk_document produces is at most 1000 characters
\* long, unless it is a single token that is itself longer than 1000.
C17_ChunkSizeBound ==
    pc = "done" /\ call.name = "chunk_document"
    => \A k \in 1..Len(ret) :
         \/ StrLen(ret[k]) <= 1000
         \/ IsToken(ret[k]) /\ ret[k] \in { <<call.text[i]>> : i \in 1..Len(call.text) }

\* two blocks of more than half the chunk size each, a blank line between
\* them, are the two chunks of their text: the splitter cuts a text of such
\* paragraphs at its paragraph breaks, which is what chunk_document above
\* takes for granted
ParagraphsAreChunks ==
    pc = "done" /\ call.name = "chunk_document"
    => \A a \in Atoms, b \in Atoms :
         /\ a.n * 2 > ChunkSize /\ a.n < ChunkSize
         /\ b.n * 2 > ChunkSize /\ b.n < ChunkSize
         /\ call.text = << a, [k |-> "\n", n |-> 1], [k |-> "\n", n |-> 1], b >>
         => ret = << <<a>>, <<b>> >>

\* the splitter cuts even a token longer than 1000: no chunk is longer
C17_ChunkSizeBoundStrict ==
    pc = "done" /\ call.name = "chunk_document"
    => \A k \in 1..Len(ret) : StrLen(ret[k]) <= 1000

\* a text of more than 1000 characters with a token of 1300 was cut into
\* several chunks, one of them of exactly 1000 characters
C17_Witness ==
    /\ pc = "done"
    /\ call.name = "chunk_document"
    /\ StrLen(call.text) > 2000
    /\ \E i \in 1..Len(call.text) : call.text[i].n = 1300
    /\ \E i \in 1..Len(call.text) : call.text[i].n = 400
    /\ Len(ret) >= 3
    /\ \E k \in 1..Len(ret) : StrLen(ret[k]) = 1000

\* the chunker on small texts: no chunk for an empty or whitespace-only
\* text, and the stripped text as the one chunk of any other text shorter
\* than 1000 characters
C18_SmallInputChunks ==
    pc = "done" /\ call.name = "chunk_document"
    => /\ Strip(call.text) = <<>> => ret = <<>>
       /\ Strip(call.text) # <<>> /\ StrLen(call.text) < 1000
          => ret = << Strip(call.text) >>

\* C18: store_document with an empty or whitespace-only text produces no
\* chunk, adds nothing to the index and returns the collection name without
\* raising; with a non-blank text shorter than 1000 characters it stores
\* exactly one chunk (unless the embedder or the store raises): it adds at
\* most one chunk and the one chunk of the text is in the index afterwards.
C18_SmallInputStore ==
    [][ call'.name = "store_document"
        => LET new == Appended(call'.doc_id)
               index == collections'[CollectionName(call'.doc_id)]
               blank == \A i \in 1..Len(call'.text) : call'.text[i] = Blank
           IN /\ blank => /\ locals'.chunks = <<>>
                          /\ new = <<>>
                          /\ ~raised'
                          /\ ret' = CollectionName(call'.doc_id)
              /\ ~blank /\ Len(call'.text) = 1 /\ ~raised'
                 => /\ Len(locals'.chunks) = 1
                    /\ Len(new) <= 1
                    /\ \E j \in 1..Len(index) :
                          index[j].document = locals'.chunks[1]
      ]_vars

\* the candidates that variant v put into the merge
CandidatesOf(v) ==
    { k \in 1..Len(locals.all_results) :
        locals.all_results[k].query_variation = v }

\* C19: a hybrid_search call on an existing index (whose embedding step
\* succeeded) searches each of the 6 query variants exactly once, with
\* limit min(top_k, 10); no variant contributes more than min(top_k, 10)
\* candidates to the merge, and every merged candidate carries the index
\* 0..5 of the variant whose search returned it.
C19_PerVariantCap ==
    ( /\ pc = "done"
      /\ call.name = "hybrid_search"
      /\ CollectionName(call.doc_id) \in DOMAIN collections
      /\ ~raised )
        => LET cap == IF call.top_k <= 10 THEN call.top_k ELSE 10
           IN /\ Len(locals.searches) = 6
              /\ \A v \in 0..5 :
                    /\ locals.searches[v + 1].query_variation = v
                    /\ locals.searches[v + 1].n_results = cap
                    /\ Cardinality(CandidatesOf(v)) <= cap
              /\ \A k \in 1..Len(locals.all_results) :
                    LET hit == locals.all_results[k]
                    IN /\ hit.query_variation \in 0..5
                       /\ hit.query_variation \notin call.faults.search
                       /\ \E j \in 1..Len(SearchOf(hit.query_variation)) :
                             /\ SearchOf(hit.query_variation)[j].id = hit.id
                             /\ SearchOf(hit.query_variation)[j].distance
                                  = hit.distance

\* a search with top_k above 10 over an index of more than 10 chunks: every
\* variant contributed exactly 10 candidates
C19_Witness ==
    /\ pc = "done"
    /\ call.name = "hybrid_search"
    /\ call.top_k > 10
    /\ CollectionName(call.doc_id) \in DOMAIN collections
    /\ Len(collections[CollectionName(call.doc_id)]) > 10
    /\ ~raised
    /\ \A v \in 0..5 : Cardinality(CandidatesOf(v)) = 10

\* C20: an index that exists stays, with every record it has, and its
\* count never decreases; a step that creates an index or changes one is a
\* store_document call, and it touches only the index of its own doc_id.
C20_MonotonicLifecycle ==
    [][ /\ \A name \in DOMAIN collections :
              /\ name \in DOMAIN collections'
              /\ Len(collections'[name]) >= Len(collections[name])
              /\ SubSeq(collections'[name], 1, Len(collections[name]))
                   = collections[name]
        /\ collections' # collections
           => /\ call'.name = "store_document"
              /\ \A name \in DOMAIN collections' :
                    name # CollectionName(call'.doc_id)
                    => /\ name \in DOMAIN collections
                       /\ collections'[name] = collections[name]
      ]_vars

\* a second store_document call has made an index grow while the other
\* document has an index too
C20_Witness ==
    /\ pc = "done"
    /\ call.name = "store_document"
    /\ ~raised
    /\ Len(collections[CollectionName(call.doc_id)]) > Len(locals.chunks)
    /\ Len(locals.chunks) > 0
    /\ \A d \in DocIds : CollectionName(d) \in DOMAIN collections

\* C21: every chunk that a store_document call writes carries, whatever the
\* caller's metadata holds, doc_id = str(doc_id) of the call and chunk_index
\* = the 0-based position of the chunk among the chunks of that call.
C21_MetadataIdentifiesChunk ==
    [][ call'.name = "store_document"
        => LET new == Appended(call'.doc_id)
           IN \A k \in 1..Len(new) :
                /\ new[k].metadata.doc_id = Str(call'.doc_id)
                /\ \E i \in 1..Len(locals'.chunks) :
                      /\ new[k].id = locals'.ids[i]
                      /\ new[k].document = locals'.chunks[i]
                      /\ new[k].metadata.chunk_index = i - 1
      ]_vars

\* ------------------------------------------------------------------
\* pdf_extractor.py: PDFExtractor.extract.  A PDF file is given by what each
\* extraction library makes of it: the library raises (it is not installed,
\* or it cannot read the file), or it returns a text.  Texts are sequences of
\* atoms as above, whitespace atoms being the ones str.strip() removes.
\* ------------------------------------------------------------------

\* self.methods, in the order __init__ lists them
methods == <<"pdfplumber", "PyMuPDF", "pdfminer", "OCR">>

\* the length the stripped text has to exceed
MinTextLength == 50

\* the value of 'method' when no method produced the result
None == "None"

\* what one _extract_with_* call does with the file
Raises == [raises |-> TRUE, text |-> <<>>, pages |-> 0]

Extracted(text) == [raises |-> FALSE, text |-> text, pages |-> 1]

\* result and result.get('text') and len(result['text'].strip()) > 50
QualifiesAtFifty(result) ==
    /\ result.text # <<>>
    /\ StrLen(Strip(result.text)) >= MinTextLength

Qualifies(result) ==
    /\ result.text # <<>>
    /\ StrLen(Strip(result.text)) > MinTextLength

\* the return value when the path names no file
FileNotFound ==
    [success |-> FALSE, error |-> "File not found", text |-> <<>>,
     pages |-> 0, method |-> None]

\* the return value after the loop
AllMethodsFailed ==
    [success |-> FALSE, error |-> "All extraction methods failed",
     text |-> <<>>, pages |-> 0, method |-> None,
     images |-> <<>>, tables |-> <<>>]

\* the loop over self.methods from the i-th on; tried lists the methods whose
\* function has been called
RECURSIVE TryMethods(_, _, _)
TryMethods(outcomes, i, tried) ==
    IF i > Len(methods) THEN [ret |-> AllMethodsFailed, tried |-> tried]
    ELSE LET result == outcomes[i]
             called == Append(tried, methods[i])
         IN IF ~result.raises /\ Qualifies(result)
            THEN [ret |-> [text |-> result.text, pages |-> result.pages,
                           images |-> <<>>, tables |-> <<>>,
                           method |-> methods[i], success |-> TRUE],
                  tried |-> called]
            ELSE TryMethods(outcomes, i + 1, called)

\* PDFExtractor.extract(pdf_path)
extract(exists, outcomes) ==
    IF ~exists THEN [ret |-> FileNotFound, tried |-> <<>>]
    ELSE TryMethods(outcomes, 1, <<>>)

\* texts around the threshold: empty, blank, 50 and 51 characters, and 50
\* and 51 characters inside whitespace
PdfTexts ==
    { <<>>,
      << [k |-> " ", n |-> 60] >>,
      << [k |-> "w", n |-> 50] >>,
      << [k |-> "w", n |-> 51] >>,
      << [k |-> "\n", n |-> 30], [k |-> "w", n |-> 50], [k |-> " ", n |-> 30] >>,
      << [k |-> " ", n |-> 2], [k |-> "w", n |-> 51], [k |-> "\n", n |-> 1] >> }

MethodOutcomes == {Raises} \cup { Extracted(t) : t \in PdfTexts }

\* extract_pdf_content(pdf_path): PDFExtractor().extract(pdf_path)
Extract ==
    /\ pc = "ready"
    /\ \E exists \in BOOLEAN,
          outcomes \in [1..Len(methods) -> MethodOutcomes] :
         LET r == extract(exists, outcomes)
         IN /\ call' = [name |-> "extract", exists |-> exists,
                        outcomes |-> Seq_(outcomes)]
            /\ ret' = r.ret
            /\ locals' = [tried |-> r.tried]
    /\ raised' = FALSE
    /\ pc' = "done"
    /\ UNCHANGED <<collections, stored>>
    /\ UNCHANGED <<taskVars, dbVars>>

\* extract alone, on files of the caller's choosing
NextExtract ==
    \/ Extract
    \/ Return

SpecExtract == Init /\ [][NextExtract]_vars

\* the first method of the call whose text passes the threshold, 0 if none
FirstSufficient(outcomes) ==
    LET ok == { i \in 1..Len(methods) :
                  /\ ~outcomes[i].raises
                  /\ StrLen(Strip(outcomes[i].text)) > MinTextLength }
    IN IF ok = {} THEN 0 ELSE CHOOSE i \in ok : \A j \in ok : i <= j

\* C22: extract calls the methods in the order pdfplumber, PyMuPDF, pdfminer,
\* OCR, skipping none because an earlier one raised or gave too little text,
\* and returns success = True, the method's name and the method's result for
\* the first one whose stripped text is longer than 50 characters; when there
\* is none, or no file, it returns success = False with empty text (it never
\* raises).
C22_FirstSufficientMethod ==
    (pc = "done" /\ call.name = "extract")
    => LET first == FirstSufficient(call.outcomes)
       IN /\ ~raised
          /\ (~call.exists
              => /\ ~ret.success /\ ret.text = <<>> /\ ret.method = None
                 /\ locals.tried = <<>>)
          /\ (call.exists /\ first = 0
              => /\ ~ret.success /\ ret.text = <<>> /\ ret.method = None
                 /\ locals.tried = methods)
          /\ (call.exists /\ first > 0
              => /\ ret.success
                 /\ ret.method = methods[first]
                 /\ ret.text = call.outcomes[first].text
                 /\ ret.pages = call.outcomes[first].pages
                 /\ locals.tried = SubSeq(methods, 1, first))

\* pdfplumber raised, PyMuPDF returned exactly 50 characters, pdfminer
\* returned 50 characters inside whitespace, and OCR's text was returned
C22_Witness ==
    /\ pc = "done"
    /\ call.name = "extract"
    /\ call.exists
    /\ call.outcomes[1].raises
    /\ ~call.outcomes[2].raises
    /\ StrLen(call.outcomes[2].text) = MinTextLength
    /\ ~call.outcomes[3].raises
    /\ StrLen(call.outcomes[3].text) > MinTextLength
    /\ StrLen(Strip(call.outcomes[3].text)) = MinTextLength
    /\ ret.success
    /\ ret.method = "OCR"

\* ------------------------------------------------------------------
\* app.py: the /api/query handler over the documents and messages tables of
\* database.py.  Handlers run one at a time here; a request is given by its
\* Authorization header (the user the token belongs to, or no valid token),
\* its body, and what the two backends do during it.
\* ------------------------------------------------------------------

Users == {"u1", "u2"}

\* the header of a request without a token Supabase accepts
NoToken == "none"

\* the messages the model lets the table hold before it stops accepting
\* queries that would add to it
MaxMessages == 2

\* verify_token(authorization): the user id, or HTTPException 401
verify_token(authorization) ==
    IF authorization \in Users
    THEN [raised |-> FALSE, user_id |-> authorization]
    ELSE [raised |-> TRUE, user_id |-> NoToken]

\* db.create_document: the rows with the new one; its id is lastrowid
create_document(docs, user_id, filename) ==
    Append(docs, [id |-> Len(docs) + 1, user_id |-> user_id,
                  filename |-> filename])

\* db.get_document(doc_id): whether the SELECT finds a row
HasDocument(docs, doc_id) == doc_id \in 1..Len(docs)

\* the chunks_used column: NULL for None and for the empty list
ChunksJson(chunks_used) ==
    IF chunks_used # <<>> THEN [null |-> FALSE, ids |-> chunks_used]
    ELSE [null |-> TRUE, ids |-> <<>>]

\* db.create_message: the rows with the new one
create_message(msgs, document_id, role, content, chunks_used) ==
    Append(msgs, [id |-> Len(msgs) + 1, document_id |-> document_id,
                  role |-> role, content |-> content,
                  chunks_used |-> ChunksJson(chunks_used)])

\* mutant: the ownership check is missing
DeniedIfMissing(docs, document_id, user_id) ==
    IF ~HasDocument(docs, document_id) THEN 404 ELSE 0

\* the two checks after db.get_document: the status of the HTTPException
\* raised, 0 when none is
Denied(docs, document_id, user_id) ==
    IF ~HasDocument(docs, document_id) THEN 404
    ELSE IF docs[document_id].user_id # user_id THEN 403
    ELSE 0

\* mutant: the intent of the request is passed on
RetrievalIntentOfRequest(request) == request.intent

\* the intent argument of the retrieve_context call
RetrievalIntent(request) == "fact"

ChunkIds(chunks) == Seq_([i \in 1..Len(chunks) |-> chunks[i].id])

\* query_document from the context on, after retrieve_context has returned
\* out: the gemini-chat call, the assistant message and the response
Answer(asked, request, out, gemini) ==
    IF out.raised
    THEN [status |-> 500, messages |-> asked, retrieved |-> TRUE,
          chunks |-> <<>>, candidates |-> <<>>]
    ELSE IF gemini # 200
    THEN [status |-> 500, messages |-> asked, retrieved |-> TRUE,
          chunks |-> out.ret, candidates |-> out.chunks]
    ELSE [status |-> 200,
          messages |-> create_message(asked, request.document_id,
                                      "assistant", "answer",
                                      ChunkIds(out.ret)),
          retrieved |-> TRUE,
          chunks |-> out.ret, candidates |-> out.chunks]

\* the request is refused with the given status before anything is done
Refused(msgs, status) ==
    [status |-> status, messages |-> msgs, retrieved |-> FALSE,
     chunks |-> <<>>, candidates |-> <<>>]

\* query_document(request, authorization): the status of the response, the
\* messages table after it, whether retrieve_context was called, and the
\* chunks the context was built from.  backend.faults are the failures of
\* the retrieval backends, backend.gemini the status of the gemini-chat call.
query_document(docs, msgs, colls, authorization, request, backend) ==
    IF verify_token(authorization).raised THEN Refused(msgs, 401)
    ELSE IF Denied(docs, request.document_id,
                   verify_token(authorization).user_id) # 0
    THEN Refused(msgs, Denied(docs, request.document_id,
                              verify_token(authorization).user_id))
    ELSE Answer(create_message(msgs, request.document_id, "user",
                               request.query, <<>>),
                request,
                retrieve_context(colls, request.document_id, request.query,
                                 RetrievalIntent(request), backend.faults),
                backend.gemini)

\* the uploads: who uploads which file, with the text extracted from it
UploadInputs ==
    { [user_id |-> "u1", filename |-> "a.pdf",
       text |-> <<"revenue grew", "costs fell", "risk factors", "outlook",
                  "dividend", "audit opinion">>],
      [user_id |-> "u2", filename |-> "b.pdf",
       text |-> <<"risk factors", Blank, "outlook", "revenue grew">>] }

\* upload_document for a PDF that one extraction method reads: the row in
\* documents, then store_document under the id of the row
UploadDocument ==
    /\ pc = "ready"
    /\ Len(db_documents) + 1 \in DocIds
    /\ \E input \in UploadInputs :
         \E docs \in { create_document(db_documents, input.user_id,
                                       input.filename) } :
           \E out \in { store_document(
                           collections, Len(docs), input.text,
                           [filename |-> input.filename,
                            document_type |-> "Unknown",
                            user_id |-> input.user_id],
                           NoFaults) } :
             /\ db_documents' = docs
             /\ collections' = out.colls
             /\ stored' = [stored EXCEPT ![Len(docs)] =
                             @ \o ChunksOf(out.colls[CollectionName(Len(docs))])]
             /\ call' = [name |-> "upload_document",
                         user_id |-> input.user_id, text |-> input.text]
             /\ ret' = [success |-> TRUE, document_id |-> Len(docs)]
             /\ raised' = out.raised
             /\ locals' = [ids |-> out.ids, chunks |-> out.chunks]
    /\ pc' = "done"
    /\ UNCHANGED <<db_messages, taskVars>>

Authorizations == Users \cup {NoToken}

\* the intents requests carry: the default, and the one with another depth
RequestIntents == {"fact", "document"}

QueryRequests ==
    [document_id : DocIds \cup {3}, query : Queries, intent : RequestIntents]

Backends ==
    [faults : {NoFaults, [NoFaults EXCEPT !.embed = TRUE]},
     gemini : {200, 500}]

\* query_document
QueryDocument ==
    /\ pc = "ready"
    /\ \E authorization \in Authorizations, request \in QueryRequests,
          backend \in Backends :
         \E out \in { query_document(db_documents, db_messages, collections,
                                     authorization, request, backend) } :
            /\ Len(out.messages) <= MaxMessages
            /\ db_messages' = out.messages
            /\ call' = [name |-> "query_document",
                        authorization |-> authorization,
                        request |-> request, backend |-> backend]
            /\ ret' = [status_code |-> out.status,
                       chunks_used |-> Len(out.chunks)]
            /\ raised' = (out.status # 200)
            /\ locals' = [retrieved |-> out.retrieved,
                          chunks |-> out.chunks,
                          candidates |-> out.candidates]
    /\ pc' = "done"
    /\ UNCHANGED <<collections, stored, db_documents, taskVars>>

\* uploads and queries, one request at a time
NextQuery ==
    \/ UploadDocument
    \/ QueryDocument
    \/ Return

SpecQuery == Init /\ [][NextQuery]_vars

\* the request of an authenticated user for a document that has no row, or
\* whose row belongs to another user
NotTheirs(docs, authorization, request) ==
    /\ authorization \in Users
    /\ \/ request.document_id \notin 1..Len(docs)
       \/ docs[request.document_id].user_id # authorization

\* C23: a query_document request of an authenticated user for a document
\* that does not exist fails with 404, and one for a document of another
\* user with 403; in both cases no message has been persisted,
\* retrieve_context has not been called, and the messages table and every
\* index are as they were.
C23_RejectedBeforeAnyEffect ==
    [][ (/\ call'.name = "query_document"
         /\ NotTheirs(db_documents, call'.authorization, call'.request))
        => /\ raised'
           /\ ret'.status_code =
                 IF call'.request.document_id \in 1..Len(db_documents)
                 THEN 403 ELSE 404
           /\ ~locals'.retrieved
           /\ db_messages' = db_messages
           /\ db_documents' = db_documents
           /\ collections' = collections
      ]_vars

\* a user has been refused the document of another user, which has an index
\* and messages of its own
C23_Witness ==
    /\ pc = "done"
    /\ call.name = "query_document"
    /\ ret.status_code = 403
    /\ NotTheirs(db_documents, call.authorization, call.request)
    /\ CollectionName(call.request.document_id) \in DOMAIN collections
    /\ collections[CollectionName(call.request.document_id)] # <<>>
    /\ \E k \in 1..Len(db_messages) :
          db_messages[k].document_id = call.request.document_id

\* C24: whatever intent a request carries, query_document builds its context
\* from at most 3 chunks and records at most 3 chunk ids, and the request
\* with any other intent in its place gets the same chunks, the same
\* response status and the same messages.
C24_IntentIgnored ==
    [][ call'.name = "query_document"
        => /\ Len(locals'.chunks) <= FactDepth
           /\ ret'.chunks_used <= FactDepth
           /\ \A k \in 1..Len(db_messages') :
                 Len(db_messages'[k].chunks_used.ids) <= FactDepth
           /\ \A intent \in Intents :
                 \A other \in { query_document(
                                   db_documents, db_messages, collections,
                                   call'.authorization,
                                   [call'.request EXCEPT !.intent = intent],
                                   call'.backend) } :
                    /\ other.chunks = locals'.chunks
                    /\ other.status = ret'.status_code
                    /\ other.messages = db_messages'
      ]_vars

\* a request with intent "document" was answered from 3 of more than 3
\* chunks that the search found, and their 3 ids were recorded
C24_Witness ==
    /\ pc = "done"
    /\ call.name = "query_document"
    /\ call.request.intent = "document"
    /\ ret.status_code = 200
    /\ Len(locals.candidates) > DocumentDepth
    /\ Len(locals.chunks) = FactDepth
    /\ ret.chunks_used = FactDepth
    /\ Len(db_messages[Len(db_messages)].chunks_used.ids) = FactDepth

====
